---- MODULE Spec2Model ----
(***************************************************************************)
(* A model of the knn command line tool: the k-range model (cli.rs), the   *)
(* distance functions (distance.rs), the classifier (classify.rs and       *)
(* predict.rs), the dataset splitter and the greedy feature search         *)
(* (search.rs).                                                            *)
(*                                                                         *)
(* Representation of values                                                *)
(*  - a feature value (f64) is an integer counting half units, so the      *)
(*    value 1.5 is written 3; every value used is exact in f64;            *)
(*  - a manhattan distance is an integer in the same half units; a         *)
(*    euclidean distance is a fixed-point square root in 1/1000 of a half  *)
(*    unit, fine enough that two radicands of the model give the same      *)
(*    root only when they are equal, as in f64;                            *)
(*  - a label (&str) is a string; a HashMap is a function whose DOMAIN is  *)
(*    its key set, and the order in which it is iterated is a separate,    *)
(*    nondeterministically chosen sequence of its keys;                    *)
(*  - a text (&str that is parsed) is a sequence of one-character strings; *)
(*  - a reference to a record (&KnnRecord) is the index of the record in   *)
(*    the record list.                                                     *)
(***************************************************************************)
EXTENDS Integers, Sequences, FiniteSets, TLC

VARIABLES
    pc,         \* position of the program in the operation being run
    given,      \* k-range: the text handed to KValue::from_str
    total,      \* k-range: the record count handed to get_range
    kvalue,     \* k-range: the outcome of from_str
    range,      \* k-range: the k values get_range yields (search: those left)
    records,    \* the record list, a sequence of [data, label]
    datapoint,  \* classifier: the query vector
    k,          \* the k of the current classification or k-iteration
    algo,       \* the distance algorithm, "euclidean" or "manhattan"
    min,        \* classifier: the returned effective k
    groups,     \* classifier: the returned tally
    split,      \* splitter: the test fraction, as a number of SplitDen-ths
    columns,    \* search: the candidate columns, as given
    hashOrder,  \* the order in which the HashMap in use iterates the labels
    train,      \* splitter: references of the train records
    test,       \* splitter: references of the test records
    selected,   \* search: the (index, col) pairs selected in this k-iteration
    avail,      \* search: the (index, col) pairs still available
    evals,      \* search: the column evaluations of the last selection step
    results,    \* search: the SearchResult log
    rows,       \* the rows of the csv file behind the reader
    output,     \* the lines printed so far
    dist,       \* distance laws: the distances measured by the last calls
    scratch     \* classifier: the caller's `collected` buffer

kVars == <<given, total, kvalue, range>>
cVars == <<datapoint, min, groups, dist, scratch>>
dVars == <<records, k, algo>>
sVars == <<split, columns, hashOrder, train, test, selected, avail, evals, results>>
ioVars == <<rows, output>>
vars == <<pc, given, total, kvalue, range, records, datapoint, k, algo, min,
          groups, split, columns, hashOrder, train, test, selected, avail,
          evals, results, rows, output, dist, scratch>>

----------------------------------------------------------------------------
(* Bounds of the model *)

MaxRecords == 3
MaxK == 4
\* classify_datapoint is called up to MaxCalls times on the same buffers
MaxCalls == 2

\* the numbers 0..MaxKText are written in the texts handed to the k parser
MaxKText == 3
\* the record counts 0..MaxTotal are handed to get_range
MaxTotal == 4
\* the width of usize in the model, scaled down from 64 (or 32) bits
UsizeBits == 8
\* the splitter is handed up to MaxSplitRecords records
MaxSplitRecords == 4
\* a split fraction is a number of SplitDen-ths: 0, 1/4, 1/2, 3/4 and 1, whose
\* products with a group size are exact in f64
SplitDen == 4
\* the search is handed up to MaxSearchRecords records
MaxSearchRecords == 4
\* the distance functions are handed vectors of up to MaxDim coordinates, each
\* of 0..MaxCoord half units
MaxDim == 2
MaxCoord == 2

----------------------------------------------------------------------------
(* Helpers standing for the Rust standard library *)

\* the member of a one-element set. An operator that reads an expensive
\* argument several times binds it first, as in Only({f(x) : x \in {arg}}), so
\* that the argument is evaluated once
Only(S) == CHOOSE x \in S : TRUE

\* std::cmp::min
Min(a, b) == IF a <= b THEN a ELSE b

\* f64::abs
Abs(x) == IF x < 0 THEN -x ELSE x

\* Iterator::sum over a sequence of numbers
RECURSIVE Sum(_)
Sum(s) == Only({ IF q = <<>> THEN 0 ELSE Head(q) + Sum(Tail(q)) : q \in {s} })

\* Iterator::zip: pairs up to the length of the shorter side
Zip(a, b) ==
    Only({ [i \in 1..Min(Len(p), Len(q)) |-> <<p[i], q[i]>>] : p \in {a}, q \in {b} })

\* the largest r in lo..hi-1 with r * r <= x, by bisection
RECURSIVE ISqrtBetween(_, _, _)
ISqrtBetween(x, lo, hi) ==
    Only({ IF h - l <= 1 THEN l
           ELSE Only({ IF mid * mid <= n THEN ISqrtBetween(n, mid, h)
                                         ELSE ISqrtBetween(n, l, mid) :
                       mid \in {(l + h) \div 2} }) :
           n \in {x}, l \in {lo}, h \in {hi} })

\* f64::sqrt, in fixed point: the root of n in 1/1000 units
Sqrt(n) == ISqrtBetween(n * 1000000, 0, 46341)

\* f64::total_cmp on the numbers of the model (no NaN, no negative zero)
total_cmp(a, b) == IF a < b THEN "Less" ELSE IF a = b THEN "Equal" ELSE "Greater"

\* every order in which a HashMap with key set S can be iterated
Orders(S) == {o \in [1..Cardinality(S) -> S] : \A i, j \in DOMAIN o : i # j => o[i] # o[j]}

----------------------------------------------------------------------------
(* distance.rs *)

euclidean(a_data, b_data) ==
    Only({ Sqrt(Sum([i \in DOMAIN z |-> (z[i][1] - z[i][2]) * (z[i][1] - z[i][2])])) :
           z \in {Zip(a_data, b_data)} })

\* a sum of the coordinate differences without the abs
manhattan_signed(a_data, b_data) ==
    Only({ Sum([i \in DOMAIN z |-> z[i][1] - z[i][2]]) : z \in {Zip(a_data, b_data)} })

manhattan(a_data, b_data) ==
    Only({ Sum([i \in DOMAIN z |-> Abs(z[i][1] - z[i][2])]) : z \in {Zip(a_data, b_data)} })

\* the match on AlgoType that binds `algo`
Distance(name, a_data, b_data) ==
    IF name = "euclidean" THEN euclidean(a_data, b_data) ELSE manhattan(a_data, b_data)

----------------------------------------------------------------------------
(* classify.rs *)

\* an insertion that puts e before the entries equal to it (not stable)
InsertUnstable(sorted, entry) ==
    Only({ Only({ SubSeq(s, 1, n) \o <<e>> \o SubSeq(s, n + 1, Len(s)) :
                  n \in {Cardinality({i \in 1..Len(s) : total_cmp(s[i][1], e[1]) = "Less"})} }) :
           s \in {sorted}, e \in {entry} })

\* the place a stable sort gives e among the already sorted s: after every
\* entry that is not greater
InsertStable(sorted, entry) ==
    Only({ Only({ SubSeq(s, 1, n) \o <<e>> \o SubSeq(s, n + 1, Len(s)) :
                  n \in {Cardinality({i \in 1..Len(s) : total_cmp(s[i][1], e[1]) # "Greater"})} }) :
           s \in {sorted}, e \in {entry} })

\* slice::sort_by(|(a, _), (b, _)| a.total_cmp(b)): a stable sort on the
\* first component
RECURSIVE SortBy(_)
SortBy(list) ==
    Only({ IF s = <<>> THEN <<>>
           ELSE InsertStable(SortBy(SubSeq(s, 1, Len(s) - 1)), s[Len(s)]) :
           s \in {list} })

\* an entry update that inserts 0 for a new key
EntryCountZero(map, key) ==
    Only({ IF key \in DOMAIN g THEN [g EXCEPT ![key] = @ + 1] ELSE g @@ (key :> 0) :
           g \in {map} })

\* groups.entry(key).and_modify(|counter| *counter += 1).or_insert(1)
EntryCount(map, key) ==
    Only({ IF key \in DOMAIN g THEN [g EXCEPT ![key] = @ + 1] ELSE g @@ (key :> 1) :
           g \in {map} })

\* for index in 0..min { groups.entry(collected[index].1)... }
RECURSIVE CountLabels(_, _, _)
CountLabels(g, labels, n) ==
    IF n = 0 THEN g
    ELSE EntryCount(CountLabels(g, labels, n - 1), labels[n])

\* a clamp that is one short of k
ClampShort(kk, len) == Min(kk - 1, len)

\* let min = std::cmp::min(k, collected.len())
Clamp(kk, len) == Min(kk, len)

\* classify_datapoint: pushes one (distance, label) per record onto the
\* caller's `collected`, sorts it, and counts the labels of the first `min`
\* entries into the caller's `groups`
classify_datapoint(kk, recs, alg, dp, collected, grps) ==
    LET pushed == collected \o
                    [i \in 1..Len(recs) |-> <<Distance(alg, dp, recs[i].data), recs[i].label>>]
    IN  Only({ LET m == Clamp(kk, Len(sorted))
               IN  [min       |-> m,
                    collected |-> sorted,
                    groups    |-> Only({ CountLabels(grps, labels, m) :
                                         labels \in {[i \in 1..Len(sorted) |-> sorted[i][2]]} })] :
               sorted \in {SortBy(pushed)} })

\* classify_datapoint_owned: fresh buffers, then classify_datapoint
classify_datapoint_owned(kk, recs, alg, dp) ==
    Only({ <<r.min, r.groups>> : r \in {classify_datapoint(kk, recs, alg, dp, <<>>, <<>>)} })

----------------------------------------------------------------------------
(* predict.rs *)

\* the private classify_datapoint of predict.rs
predict_classify_datapoint(kk, recs, alg, dp) ==
    LET collected == [i \in 1..Len(recs) |-> <<Distance(alg, dp, recs[i].data), i>>]
    IN  Only({ LET m == Min(kk, Len(sorted))
               IN  <<m, Only({ CountLabels(<<>>, labels, m) :
                               labels \in {[i \in 1..Len(sorted) |-> recs[sorted[i][2]].label]} })>> :
               sorted \in {SortBy(collected)} })

\* `collected[index]` for index in 0..m panics when an index is not below len
TallyPanics(m, len) == \E index \in 0..(m - 1) : index >= len

\* println!("k value: {k} |") and the datapoint, lines 65 to 71
KValueLine(kk, dp) == [line |-> "k value", k |-> kk, datapoint |-> dp]

\* println!("  {key}: {count} {:.2}", count / divisor), lines 73 to 76; the
\* quotient is the pair (count, divisor), a divisor of 0 giving inf or NaN
GroupLine(key, count, divisor) ==
    [line |-> "group", key |-> key, count |-> count,
     percent |-> [num |-> count, den |-> divisor]]

\* the group lines of a tally, the map being iterated in `order`
GroupLines(g, order, divisor) ==
    [i \in 1..Len(order) |-> GroupLine(order[i], g[order[i]], divisor)]

----------------------------------------------------------------------------
(* main.rs: the single-file program *)

\* the body of `for k in args.k.get_range(records.len())`, lines 69 to 89:
\* the labels of collected[0..k) are counted, without a clamp to the length
main_classify(kk, recs, alg, dp) ==
    LET collected == [i \in 1..Len(recs) |-> <<Distance(alg, dp, recs[i].data), i>>]
    IN  Only({ Only({ CountLabels(<<>>, labels, kk) :
                      labels \in {[i \in 1..Len(sorted) |-> recs[sorted[i][2]].label]} }) :
               sorted \in {SortBy(collected)} })

----------------------------------------------------------------------------
(* cli.rs *)

\* usize::MAX
UsizeMax == 2 ^ UsizeBits - 1

Digits == <<"0", "1", "2", "3", "4", "5", "6", "7", "8", "9">>

\* the value of a digit character
DigitValue(c) == (CHOOSE i \in DOMAIN Digits : Digits[i] = c) - 1

IsDigit(c) == \E i \in DOMAIN Digits : Digits[i] = c

\* the number a sequence of digits writes, stopping at UsizeMax + 1 (overflow)
RECURSIVE DigitsValue(_)
DigitsValue(s) ==
    IF s = <<>> THEN 0
    ELSE LET hi == DigitsValue(SubSeq(s, 1, Len(s) - 1))
         IN  Min(hi * 10 + DigitValue(s[Len(s)]), UsizeMax + 1)

\* usize::from_str: an optional "+", then one or more digits, of a value that
\* fits usize
usize_from_str(s) ==
    LET body == IF s # <<>> /\ s[1] = "+" THEN Tail(s) ELSE s
    IN  IF body = <<>> \/ \E i \in DOMAIN body : ~IsDigit(body[i])
        THEN [ok |-> FALSE]
        ELSE IF DigitsValue(body) > UsizeMax
             THEN [ok |-> FALSE]
             ELSE [ok |-> TRUE, value |-> DigitsValue(body)]

\* str::split_once: the text before and after the first occurrence of c
split_once(s, c) ==
    IF \E i \in DOMAIN s : s[i] = c
    THEN LET i == CHOOSE x \in DOMAIN s : s[x] = c /\ \A y \in 1..(x - 1) : s[y] # c
         IN  [found |-> TRUE, left |-> SubSeq(s, 1, i - 1), right |-> SubSeq(s, i + 1, Len(s))]
    ELSE [found |-> FALSE]

\* an addition that saturates instead of overflowing
AddOneSaturating(n, build) ==
    [panic |-> FALSE, value |-> Min(n + 1, UsizeMax)]

\* `n + 1` on usize: past usize::MAX it panics when the build checks overflow
\* (the dev profile) and wraps to 0 when it does not (the release profile)
AddOne(n, build) ==
    IF n + 1 <= UsizeMax THEN [panic |-> FALSE, value |-> n + 1]
    ELSE IF build = "checked" THEN [panic |-> TRUE]
         ELSE [panic |-> FALSE, value |-> (n + 1) % (UsizeMax + 1)]

Err(msg) == [state |-> "err", msg |-> msg]

Panic == [state |-> "panic"]

\* a parse_range that accepts a low of 0
parse_range_zero_low(text, build) ==
    LET sp == split_once(text, "-")
    IN  IF sp.found
        THEN LET low  == usize_from_str(sp.left)
                 high == usize_from_str(sp.right)
             IN  IF ~low.ok THEN Err("failed to parse low value for k range")
                 ELSE IF ~high.ok THEN Err("failed to parse high value for k range")
                 ELSE IF low.value > high.value
                      THEN Err("low value for k range cannot be greater than the high value")
                 ELSE LET h == AddOne(high.value, build)
                      IN  IF h.panic THEN Panic
                          ELSE [state |-> "some", low |-> low.value, high |-> h.value]
        ELSE [state |-> "none"]

\* KValue::parse_range
parse_range(text, build) ==
    LET sp == split_once(text, "-")
    IN  IF sp.found
        THEN LET low  == usize_from_str(sp.left)
                 high == usize_from_str(sp.right)
             IN  IF ~low.ok THEN Err("failed to parse low value for k range")
                 ELSE IF ~high.ok THEN Err("failed to parse high value for k range")
                 ELSE IF low.value = 0 THEN Err("low value for k range cannot be 0")
                 ELSE IF low.value > high.value
                      THEN Err("low value for k range cannot be greater than the high value")
                 ELSE LET h == AddOne(high.value, build)
                      IN  IF h.panic THEN Panic
                          ELSE [state |-> "some", low |-> low.value, high |-> h.value]
        ELSE [state |-> "none"]

\* the KValue built from (low, high, step)
KValue(low, high, step) == [state |-> "ok", low |-> low, high |-> high, step |-> step]

\* <KValue as FromStr>::from_str
from_str(text, build) ==
    LET sp == split_once(text, ",")
    IN  IF sp.found
        THEN LET step == usize_from_str(sp.right)
             IN  IF ~step.ok THEN Err("failed to parse step size for k value")
                 ELSE IF step.value = 0 THEN Err("step size must be larger than 0")
                 ELSE LET r == parse_range(sp.left, build)
                      IN  IF r.state \in {"err", "panic"} THEN r
                          ELSE IF r.state = "some" THEN KValue(r.low, r.high, step.value)
                          ELSE Err("you must specify a range when using a k range")
        ELSE LET r == parse_range(text, build)
             IN  IF r.state \in {"err", "panic"} THEN r
                 ELSE IF r.state = "some" THEN KValue(r.low, r.high, 1)
                 ELSE LET value == usize_from_str(text)
                      IN  IF value.ok
                          THEN IF value.value = 0 THEN Err("k value cannot be 0")
                               ELSE LET h == AddOne(value.value, build)
                                    IN  IF h.panic THEN Panic
                                        ELSE KValue(value.value, h.value, 1)
                          ELSE Err("invalid k value specified")

\* (start..end).step_by(step), as the sequence it yields
RECURSIVE StepBy(_, _, _)
StepBy(start, end, step) ==
    IF start >= end THEN <<>>
    ELSE <<start>> \o StepBy(start + step, end, step)

\* a get_range that does not clamp to the number of records
get_range_unclamped(kv, tot) == StepBy(kv.low, kv.high, kv.step)

\* a range clamped to one past the total
get_range_inclusive(kv, tot) ==
    LET len == Min(tot + 1, kv.high)
    IN  StepBy(kv.low, len, kv.step)

\* KValue::get_range
get_range(kv, tot) ==
    LET len == Min(tot, kv.high)
    IN  StepBy(kv.low, len, kv.step)

----------------------------------------------------------------------------
(* search.rs: split_dataset *)

\* groups.entry(label).and_modify(|list| list.push(record)).or_insert(vec![record]),
\* for the first n records: the references of each label, in input order
RECURSIVE GroupRecords(_, _)
GroupRecords(recs, n) ==
    IF n = 0 THEN <<>>
    ELSE LET label == recs[n].label
         IN  Only({ IF label \in DOMAIN g THEN [g EXCEPT ![label] = Append(@, n)]
                                          ELSE g @@ (label :> <<n>>) :
                    g \in {GroupRecords(recs, n - 1)} })

\* an amount that is rounded up
AmountCeil(len, fraction) == (len * fraction + SplitDen - 1) \div SplitDen

\* (records.len() as f64 * split).floor() as usize
Amount(len, fraction) == (len * fraction) \div SplitDen

\* a split_off that loses the record at `at`
split_off_dropping(list, at) ==
    [tail |-> SubSeq(list, at + 2, Len(list)), head |-> SubSeq(list, 1, at)]

\* Vec::split_off(at): returns the tail from `at` on and leaves the head
split_off(list, at) ==
    [tail |-> SubSeq(list, at + 1, Len(list)), head |-> SubSeq(list, 1, at)]

\* a loop body that extends train with the head and test with the tail
ExtendSwapped(acc, list, fraction) ==
    Only({ [train |-> a.train \o parts.head, test |-> a.test \o parts.tail] :
           a \in {acc}, parts \in {split_off(list, Amount(Len(list), fraction))} })

\* the body of `for (_, mut records) in groups`: train.extend(records.split_off(amount));
\* test.extend(records)
Extend(acc, list, fraction) ==
    Only({ [train |-> a.train \o parts.tail, test |-> a.test \o parts.head] :
           a \in {acc}, parts \in {split_off(list, Amount(Len(list), fraction))} })

\* the loop over the first n groups in the order the map is iterated
RECURSIVE SplitGroups(_, _, _, _)
SplitGroups(g, order, n, fraction) ==
    IF n = 0 THEN [train |-> <<>>, test |-> <<>>]
    ELSE Extend(SplitGroups(g, order, n - 1, fraction), g[order[n]], fraction)

\* split_dataset, the map being iterated in `order`
split_dataset(recs, fraction, order) ==
    Only({ SplitGroups(g, order, Len(order), fraction) : g \in {GroupRecords(recs, Len(recs))} })

\* the labels of a record list
LabelsOf(recs) == {recs[i].label : i \in 1..Len(recs)}

----------------------------------------------------------------------------
(* csv.rs *)

\* map_record: the cells of a csv row at the requested columns, and its label
map_record(cols, row) ==
    [data |-> [i \in 1..Len(cols) |-> row.cells[cols[i] + 1]], label |-> row.label]

\* collect_records: one KnnRecord per csv row, in file order
collect_records(cols, read) == [i \in 1..Len(read) |-> map_record(cols, read[i])]

----------------------------------------------------------------------------
(* search.rs: knn_search *)

\* an f64 quotient num / den of two counts; den = 0 gives NaN (0.0 / 0.0)
Ratio(num, den) == [num |-> num, den |-> den]

IsNaN(x) == x.den = 0

\* the f64 comparison a > b: false when either side is NaN
Gt(a, b) == ~IsNaN(a) /\ ~IsNaN(b) /\ a.num * b.den > b.num * a.den

\* a Vec::remove that removes nothing
remove_nothing(list, at) == list

\* Vec::remove(at), at counted from 0
remove(list, at) == SubSeq(list, 1, at) \o SubSeq(list, at + 2, Len(list))

\* collect_data: the values of a record at the selected columns, then at the
\* column being checked
collect_data(record, sel, checking) ==
    [i \in 1..Len(sel) |-> record.data[sel[i][1] + 1]] \o <<record.data[checking + 1]>>

\* the tally of one test record: lines 93 to 116 of the search loop
SearchTally(recs, trn, alg, kk, sel, index, test_record) ==
    LET a_buf     == collect_data(recs[test_record], sel, index)
        collected == [j \in 1..Len(trn) |->
                        <<Distance(alg, a_buf, collect_data(recs[trn[j]], sel, index)), trn[j]>>]
    IN  Only({ LET m == Min(kk, Len(sorted))
               IN  [min    |-> m,
                    groups |-> Only({ CountLabels(<<>>, labels, m) :
                                      labels \in {[i \in 1..Len(sorted) |-> recs[sorted[i][2]].label]} })] :
               sorted \in {SortBy(collected)} })

\* the body of `for (key, count) in &groups`: the larger probability is kept,
\* the one met first winning a tie
LargestStep(largest, prob, key) ==
    Only({ IF l.some
           THEN IF Gt(prob, l.percent)
                THEN [some |-> TRUE, percent |-> prob, label |-> key]
                ELSE l
           ELSE [some |-> TRUE, percent |-> prob, label |-> key] :
           l \in {largest} })

\* `largest` after the first n keys of `keys`
RECURSIVE Largest(_, _, _, _)
Largest(g, keys, m, n) ==
    IF n = 0 THEN [some |-> FALSE]
    ELSE LargestStep(Largest(g, keys, m, n - 1), Ratio(g[keys[n]], m), keys[n])

\* a judgement that counts a tie for the highest count as unknown
JudgeTies(t, order, actual) ==
    Only({ Only({ IF /\ largest.some
                     /\ \A key \in DOMAIN t.groups :
                           key # largest.label => t.groups[key] < t.groups[largest.label]
                  THEN IF largest.label = actual THEN "passed" ELSE "failed"
                  ELSE "unknown" :
                  largest \in {Largest(t.groups, keys, t.min, Len(keys))} }) :
           keys \in {SelectSeq(order, LAMBDA key : key \in DOMAIN t.groups)} })

\* lines 138 to 146: what the tally t of a test record of label `actual` adds
\* to the counters, the map being iterated in `order`
Judge(t, order, actual) ==
    Only({ Only({ IF largest.some
                  THEN IF largest.label = actual THEN "passed" ELSE "failed"
                  ELSE "unknown" :
                  largest \in {Largest(t.groups, keys, t.min, Len(keys))} }) :
           keys \in {SelectSeq(order, LAMBDA key : key \in DOMAIN t.groups)} })

\* the counters of one column after the loop over the test records
Counters(recs, trn, tst, alg, kk, sel, index, order) ==
    Only({ [passed  |-> Cardinality({n \in DOMAIN judged : judged[n] = "passed"}),
            failed  |-> Cardinality({n \in DOMAIN judged : judged[n] = "failed"}),
            unknown |-> Cardinality({n \in DOMAIN judged : judged[n] = "unknown"})] :
           judged \in {[n \in 1..Len(tst) |->
                          Only({ Judge(t, order, recs[tst[n]].label) :
                                 t \in {SearchTally(recs, trn, alg, kk, sel, index, tst[n])} })]} })

\* the evaluation of every available column: its counters and p_correct
Evaluate(recs, trn, tst, alg, kk, sel, avl, order) ==
    [i \in 1..Len(avl) |->
        Only({ [index |-> avl[i][1], col |-> avl[i][2],
                passed |-> c.passed, failed |-> c.failed, unknown |-> c.unknown,
                p_correct |-> Ratio(c.passed, Len(tst))] :
               c \in {Counters(recs, trn, tst, alg, kk, sel, avl[i][1], order)} })]

\* a `best` that keeps the first column evaluated
BestStepFirst(best, e, n) ==
    Only({ LET this == [some |-> TRUE, best_index |-> n - 1, best_p |-> e.p_correct,
                        index |-> e.index, col |-> e.col]
           IN  IF b.some THEN b ELSE this :
           b \in {best} })

\* lines 164 to 172: `best` is kept when its accuracy is greater than that of
\* the column just evaluated (place n of `avail`), and replaced otherwise
BestStep(best, e, n) ==
    Only({ LET this == [some |-> TRUE, best_index |-> n - 1, best_p |-> e.p_correct,
                        index |-> e.index, col |-> e.col]
           IN  IF b.some
               THEN IF Gt(b.best_p, e.p_correct) THEN b ELSE this
               ELSE this :
           b \in {best} })

\* `best` after the first n available columns
RECURSIVE Best(_, _)
Best(ev, n) ==
    IF n = 0 THEN [some |-> FALSE]
    ELSE BestStep(Best(ev, n - 1), ev[n], n)

\* a SearchResult built before the winning column is pushed onto `selected`
SearchResultStale(kk, best_p, sel) ==
    [k |-> kk, percent |-> Ratio(best_p.num * 100, best_p.den),
     cols |-> [i \in 1..(Len(sel) - 1) |-> sel[i][2]]]

\* SearchResult { k, percent: best_p * 100.0, cols }
SearchResult(kk, best_p, sel) ==
    [k |-> kk, percent |-> Ratio(best_p.num * 100, best_p.den),
     cols |-> [i \in 1..Len(sel) |-> sel[i][2]]]

\* an enumeration that counts the columns from 1
EnumerateFromOne(cols) == [i \in 1..Len(cols) |-> <<i, cols[i]>>]

\* columns.iter().enumerate().map(|(index, col)| (index, *col)).collect()
Enumerate(cols) == [i \in 1..Len(cols) |-> <<i - 1, cols[i]>>]

\* Vec::split_off(at) panics when at is greater than the length
split_off_panics(list, at) == at > Len(list)

\* Vec::remove(at) panics when at is not below the length
remove_panics(list, at) == at >= Len(list)

\* split_dataset panics when the split_off of a label group does
SplitPanics(recs, fraction) ==
    \E g \in {GroupRecords(recs, Len(recs))} :
        \E l \in DOMAIN g : split_off_panics(g[l], Amount(Len(g[l]), fraction))

\* collect_data panics when record.data is indexed out of its bounds
collect_data_panics(record, sel, checking) ==
    \/ \E i \in 1..Len(sel) : sel[i][1] >= Len(record.data)
    \/ checking >= Len(record.data)

\* the evaluation of the columns `avl` panics: in collect_data, or at
\* `collected[index]` for an index of 0..min that is not below the length
EvaluatePanics(recs, trn, tst, kk, sel, avl) ==
    \E i \in 1..Len(avl) : \E t \in 1..Len(tst) :
        \/ collect_data_panics(recs[tst[t]], sel, avl[i][1])
        \/ \E j \in 1..Len(trn) : collect_data_panics(recs[trn[j]], sel, avl[i][1])
        \/ \E index \in 0..(Min(kk, Len(trn)) - 1) : index >= Len(trn)

\* the columns of `selected`
Cols(sel) == [i \in 1..Len(sel) |-> sel[i][2]]

\* println!("train size: {} test size: {}", ...), line 65
TrainSizeLine(trn, tst) == [line |-> "train size", train |-> Len(trn), test |-> Len(tst)]

\* println!("k: {k}"), line 80
KLine(kk) == [line |-> "k", k |-> kk]

\* the line of one evaluated column, lines 156 to 162
ColumnLine(sel, e) ==
    [line |-> "column", cols |-> Append(Cols(sel), e.col), passed |-> e.passed,
     p_correct |-> e.p_correct, failed |-> e.failed, unknown |-> e.unknown]

\* the line of one result, lines 199 to 207
ResultLine(r) == [line |-> "result", k |-> r.k, percent |-> r.percent, cols |-> r.cols]

----------------------------------------------------------------------------
(* Values of the variables an operation does not use *)

KIdle == given = <<>> /\ total = 0 /\ kvalue = [state |-> "none"] /\ range = <<>>
CIdle == /\ datapoint = <<>> /\ min = 0 /\ groups = <<>> /\ dist = <<>>
         /\ scratch = <<>>
DIdle == records = <<>> /\ k = 0 /\ algo = "euclidean"
SIdle == /\ split = 0 /\ columns = <<>> /\ hashOrder = <<>>
         /\ train = <<>> /\ test = <<>> /\ selected = <<>> /\ avail = <<>>
         /\ evals = <<>> /\ results = <<>>
IOIdle == rows = <<>> /\ output = <<>>

----------------------------------------------------------------------------
(* The classifier, called on bounded inputs *)

Algos == {"euclidean", "manhattan"}
Labels == {"a", "b"}

\* three points; from <<0, 0>> the other two are at the same manhattan
\* distance and at different euclidean distances
Points == {<<0, 0>>, <<1, 1>>, <<0, 2>>}

\* const RECORDS of classify.rs's tests, in half units
RECORDS == << [data |-> <<2, 2>>, label |-> "a"],
              [data |-> <<4, 4>>, label |-> "b"],
              [data |-> <<3, 5>>, label |-> "a"],
              [data |-> <<2, 6>>, label |-> "b"],
              [data |-> <<4, 2>>, label |-> "a"],
              [data |-> <<2, 4>>, label |-> "b"],
              [data |-> <<6, 2>>, label |-> "a"],
              [data |-> <<5, 3>>, label |-> "b"] >>

\* const T1 and T2 of classify.rs's tests, in half units
T1 == <<3, 2>>
T2 == <<3, 3>>

RecordValues == [data : Points, label : Labels]
RecordLists == UNION {[1..n -> RecordValues] : n \in 0..MaxRecords}

ClassifyInputs == (RecordLists \X Points) \cup ({RECORDS} \X {T1, T2})

InitClassify ==
    /\ pc = "classify"
    /\ \E in \in ClassifyInputs : records = in[1] /\ datapoint = in[2]
    /\ k \in 1..MaxK
    /\ algo \in Algos
    /\ min = 0 /\ groups = <<>> /\ dist = <<>> /\ scratch = <<>>
    /\ KIdle /\ SIdle /\ IOIdle

\* a call of classify_datapoint_owned
ClassifyOwned ==
    /\ pc = "classify"
    /\ LET r == classify_datapoint_owned(k, records, algo, datapoint)
       IN  min' = r[1] /\ groups' = r[2]
    /\ pc' = "owned"
    /\ UNCHANGED <<kVars, dVars, sVars, ioVars, datapoint, dist, scratch>>

\* a call of predict.rs's classify_datapoint
PredictClassify ==
    /\ pc = "classify"
    /\ LET r == predict_classify_datapoint(k, records, algo, datapoint)
       IN  min' = r[1] /\ groups' = r[2]
    /\ pc' = "predicted"
    /\ UNCHANGED <<kVars, dVars, sVars, ioVars, datapoint, dist, scratch>>

\* a call of classify_datapoint on the caller's buffers, which hold what the
\* calls before it left in them; the caller makes up to MaxCalls calls
ClassifyBuffered ==
    /\ pc \in {"classify", "buffered"}
    /\ Len(scratch) < MaxCalls * Len(records) \/ pc = "classify"
    /\ \E r \in {classify_datapoint(k, records, algo, datapoint, scratch, groups)} :
          /\ min' = r.min
          /\ groups' = r.groups
          /\ scratch' = r.collected
    /\ pc' = "buffered"
    /\ UNCHANGED <<kVars, dVars, sVars, ioVars, datapoint, dist>>

NextClassify == ClassifyOwned \/ PredictClassify \/ ClassifyBuffered

SpecClassify == InitClassify /\ [][NextClassify]_vars

----------------------------------------------------------------------------
(* The distance functions, called on bounded inputs *)

Vectors(n) == [1..n -> 0..MaxCoord]

\* the vectors of distance.rs's tests check_euclidean and check_manhattan, in
\* half units
TestVectors == { <<<<6, 6>>, <<2, 2>>>>, <<<<8, 8>>, <<4, 4>>>> }

\* pairs of vectors of equal length
VectorPairs == UNION {Vectors(n) \X Vectors(n) : n \in 0..MaxDim} \cup TestVectors

\* the vector a is held in `datapoint`, the vector b in the one record
InitDistance ==
    /\ pc = "distance"
    /\ \E ab \in VectorPairs :
          /\ datapoint = ab[1]
          /\ records = <<[data |-> ab[2], label |-> "a"]>>
    /\ algo \in Algos
    /\ k = 0 /\ min = 0 /\ groups = <<>> /\ dist = <<>> /\ scratch = <<>>
    /\ KIdle /\ SIdle /\ IOIdle

\* the distance function is called on (a, b), on (b, a) and on (a, a)
Measure ==
    /\ pc = "distance"
    /\ \E a \in {datapoint} : \E b \in {records[1].data} :
          dist' = [ab |-> Distance(algo, a, b),
                   ba |-> Distance(algo, b, a),
                   aa |-> Distance(algo, a, a)]
    /\ pc' = "measured"
    /\ UNCHANGED <<kVars, dVars, sVars, ioVars, datapoint, min, groups, scratch>>

NextDistance == Measure

SpecDistance == InitDistance /\ [][NextDistance]_vars

----------------------------------------------------------------------------
(* The k-range model, called on bounded inputs *)

\* the decimal text of a number
RECURSIVE Text(_)
Text(n) == IF n < 10 THEN <<Digits[n + 1]>> ELSE Text(n \div 10) \o <<Digits[(n % 10) + 1]>>

FixedText(n) == Text(n)
RangeText(low, high) == Text(low) \o <<"-">> \o Text(high)
RangeStepText(low, high, step) == RangeText(low, high) \o <<",">> \o Text(step)
FixedStepText(n, step) == Text(n) \o <<",">> \o Text(step)

\* the numbers written in the texts: the small ones and the largest usize
KNumbers == 0..MaxKText \cup {UsizeMax}

\* the texts the specification names
NamedTexts == { FixedText(3), RangeText(3, 5), RangeStepText(2, 10, 3), RangeText(5, 10),
                FixedText(0), RangeText(0, 5), RangeText(5, 2), RangeStepText(1, 5, 0) }

\* texts outside the grammar, and the "+" that usize::from_str accepts
OtherTexts == { <<>>, <<"-">>, <<",">>, <<"x">>, <<"3", "-">>, <<"-", "3">>, <<"3", ",">>,
                <<"+", "3">>, <<"1", "-", "x">>, <<"1", "-", "2", ",", "x">>,
                <<"1", "-", "2", "-", "3">>, Text(UsizeMax + 1) }

KTexts == {FixedText(n) : n \in KNumbers}
          \cup {RangeText(l, h) : <<l, h>> \in KNumbers \X KNumbers}
          \cup {RangeStepText(l, h, st) : <<l, h, st>> \in KNumbers \X KNumbers \X KNumbers}
          \cup {FixedStepText(n, st) : <<n, st>> \in KNumbers \X KNumbers}
          \cup NamedTexts \cup OtherTexts

Totals == 0..MaxTotal \cup {7, 100}

Builds == {"checked", "wrapping"}

InitK ==
    /\ pc = "parse"
    /\ given \in KTexts
    /\ total = 0 /\ kvalue = [state |-> "none"] /\ range = <<>>
    /\ CIdle /\ DIdle /\ SIdle /\ IOIdle

\* the command line's k is parsed
FromStr ==
    /\ pc = "parse"
    /\ \E build \in Builds : kvalue' = from_str(given, build)
    /\ pc' = "parsed"
    /\ UNCHANGED <<given, total, range, cVars, dVars, sVars, ioVars>>

\* get_range is called on the parsed KValue; it may be called again with
\* another record count
GetRange ==
    /\ pc \in {"parsed", "ranged"}
    /\ kvalue.state = "ok"
    /\ \E tot \in Totals :
          /\ total' = tot
          /\ range' = get_range(kvalue, tot)
    /\ pc' = "ranged"
    /\ UNCHANGED <<given, kvalue, cVars, dVars, sVars, ioVars>>

NextK == FromStr \/ GetRange

SpecK == InitK /\ [][NextK]_vars

----------------------------------------------------------------------------
(* The splitter, called on bounded inputs *)

SplitLabels == {"a", "b", "c"}

SplitRecordValues == [data : {<<0>>}, label : SplitLabels]
SplitRecordLists == UNION {[1..n -> SplitRecordValues] : n \in 0..MaxSplitRecords}

\* the fractions of [0, 1] of the model
Fractions == 0..SplitDen

InitSplit ==
    /\ pc = "split"
    /\ records \in SplitRecordLists
    /\ split \in Fractions
    /\ k = 0 /\ algo = "euclidean"
    /\ columns = <<>> /\ hashOrder = <<>> /\ train = <<>> /\ test = <<>>
    /\ selected = <<>> /\ avail = <<>> /\ evals = <<>> /\ results = <<>>
    /\ KIdle /\ CIdle /\ IOIdle

\* a call of split_dataset; the label map is iterated in any order
SplitDataset ==
    /\ pc = "split"
    /\ \E order \in Orders(LabelsOf(records)) :
          /\ hashOrder' = order
          /\ LET r == split_dataset(records, split, order)
             IN  train' = r.train /\ test' = r.test
    /\ pc' = "splitdone"
    /\ UNCHANGED <<kVars, cVars, dVars, ioVars, split, columns, selected, avail, evals, results>>

NextSplit == SplitDataset

SpecSplit == InitSplit /\ [][NextSplit]_vars

----------------------------------------------------------------------------
(* The feature search, run on bounded inputs *)

\* the rows of the csv file: two numeric cells and a label
RowValues == { [cells |-> <<0, 1>>, label |-> "a"],
               [cells |-> <<1, 1>>, label |-> "b"],
               [cells |-> <<1, 0>>, label |-> "a"] }

RowLists == UNION {[1..n -> RowValues] : n \in 0..MaxSearchRecords}

\* the --col arguments, resolved to csv column indexes
ColumnLists == {<<>>, <<0>>, <<0, 1>>, <<1, 0>>}

\* the -k arguments: "1-3" and "2"
SearchKValues == {from_str(RangeText(1, 3), "checked"), from_str(FixedText(2), "checked")}

\* the state at the entry of knn_search, the csv rows being one of `lists`
SearchEntry(lists) ==
    /\ pc = "start"
    /\ columns \in ColumnLists
    /\ rows \in lists
    /\ output = <<>>
    /\ records = <<>>
    /\ kvalue \in SearchKValues
    /\ algo \in Algos
    /\ split \in Fractions
    /\ given = <<>> /\ total = 0 /\ range = <<>>
    /\ k = 0
    /\ hashOrder = <<>> /\ train = <<>> /\ test = <<>>
    /\ selected = <<>> /\ avail = <<>> /\ evals = <<>> /\ results = <<>>
    /\ CIdle

InitSearch == SearchEntry(RowLists)

\* the rows of the runs whose termination is checked: two of the three row
\* values, the control flow of the search being the same for all of them
LiveRowValues == { r \in RowValues : r.cells[2] = 1 }

LiveRowLists == UNION {[1..n -> LiveRowValues] : n \in 0..MaxSearchRecords}

InitSearchLive == SearchEntry(LiveRowLists)

\* knn_search, lines 43 to 45: no column, the run fails
SearchNoColumns ==
    /\ pc = "start"
    /\ columns = <<>>
    /\ pc' = "failed"
    /\ UNCHANGED <<kVars, cVars, dVars, sVars, ioVars>>

\* knn_search, lines 47 to 65: the records are collected and split, the sizes
\* printed and the k values computed
SearchSplit ==
    /\ pc = "start"
    /\ columns # <<>>
    /\ \E recs \in {collect_records(columns, rows)} :
          /\ records' = recs
          /\ IF SplitPanics(recs, split)
             THEN /\ pc' = "panicked"
                  /\ UNCHANGED <<train, test, range, output>>
             ELSE \E order \in Orders(LabelsOf(recs)) :
                  \E r \in {split_dataset(recs, split, order)} :
                      /\ train' = r.train
                      /\ test' = r.test
                      /\ range' = get_range(kvalue, Len(r.train))
                      /\ output' = Append(output, TrainSizeLine(r.train, r.test))
                      /\ pc' = "for_k"
    /\ results' = <<>>
    /\ UNCHANGED <<given, total, kvalue, cVars, k, algo, split, columns, hashOrder,
                   selected, avail, evals, rows>>

\* the head of `for k in arg.k.get_range(train.len())`, lines 69 to 80: the
\* next k, an empty `selected`, every column in `avail`, a new `groups` map
SearchNextK ==
    /\ pc = "for_k"
    /\ range # <<>>
    /\ k' = Head(range)
    /\ range' = Tail(range)
    /\ selected' = <<>>
    /\ avail' = Enumerate(columns)
    /\ hashOrder' \in Orders(LabelsOf(records))
    /\ output' = Append(output, KLine(Head(range)))
    /\ pc' = "while"
    /\ UNCHANGED <<given, total, kvalue, cVars, records, algo, split, columns,
                   train, test, evals, results, rows>>

\* one turn of `while !avail.is_empty()`, lines 82 to 196: every available
\* column is evaluated, the best one is moved to `selected`, a result is pushed
SearchSelect ==
    /\ pc = "while"
    /\ avail # <<>>
    /\ IF EvaluatePanics(records, train, test, k, selected, avail)
       THEN /\ pc' = "panicked"
            /\ UNCHANGED <<evals, selected, avail, results, output>>
       ELSE \E ev \in {Evaluate(records, train, test, algo, k, selected, avail, hashOrder)} :
            \E best \in {Best(ev, Len(ev))} :
                /\ evals' = ev
                /\ output' = output \o [i \in 1..Len(ev) |-> ColumnLine(selected, ev[i])]
                /\ IF ~best.some
                   THEN /\ pc' = "for_k"
                        /\ UNCHANGED <<selected, avail, results>>
                   ELSE IF remove_panics(avail, best.best_index)
                   THEN /\ pc' = "panicked"
                        /\ UNCHANGED <<selected, avail, results>>
                   ELSE LET sel == Append(selected, <<best.index, best.col>>)
                        IN  /\ selected' = sel
                            /\ avail' = remove(avail, best.best_index)
                            /\ results' = Append(results, SearchResult(k, best.best_p, sel))
                            /\ pc' = "while"
    /\ UNCHANGED <<kVars, cVars, dVars, split, columns, hashOrder, train, test, rows>>

\* `avail` is empty: the k-iteration ends
SearchEndK ==
    /\ pc = "while"
    /\ avail = <<>>
    /\ pc' = "for_k"
    /\ UNCHANGED <<kVars, cVars, dVars, sVars, ioVars>>

\* no k is left: the results are printed and the run ends, lines 199 to 209
SearchDone ==
    /\ pc = "for_k"
    /\ range = <<>>
    /\ output' = output \o [i \in 1..Len(results) |-> ResultLine(results[i])]
    /\ pc' = "done"
    /\ UNCHANGED <<kVars, cVars, dVars, sVars, rows>>

NextSearch ==
    \/ SearchNoColumns
    \/ SearchSplit
    \/ SearchNextK
    \/ SearchSelect
    \/ SearchEndK
    \/ SearchDone

SpecSearch == InitSearch /\ [][NextSearch]_vars

\* the run is one thread of straight-line code: a step that can be taken is
\* taken
SpecSearchLive == InitSearchLive /\ [][NextSearch]_vars /\ WF_vars(NextSearch)

----------------------------------------------------------------------------
(* The predict command (predict.rs) and the single-file program (main.rs),   *)
(* run on bounded inputs                                                     *)

PredictRowLists == UNION {[1..n -> RowValues] : n \in 0..MaxRecords}

\* the --datapoint arguments: Datapoint::from_str yields at least one number
Datapoints == UNION {[1..n -> {0, 1}] : n \in 1..2}

InitPredict ==
    /\ pc \in {"predict", "main"}
    /\ rows \in PredictRowLists
    /\ columns \in ColumnLists
    /\ datapoint \in Datapoints
    /\ kvalue \in SearchKValues
    /\ algo \in Algos
    /\ output = <<>> /\ records = <<>>
    /\ given = <<>> /\ total = 0 /\ range = <<>>
    /\ k = 0 /\ min = 0 /\ groups = <<>> /\ dist = <<>> /\ scratch = <<>>
    /\ split = 0 /\ hashOrder = <<>> /\ train = <<>> /\ test = <<>>
    /\ selected = <<>> /\ avail = <<>> /\ evals = <<>> /\ results = <<>>

\* what a step of either program leaves alone
PredictFrame == UNCHANGED <<given, total, kvalue, datapoint, algo, split, columns,
                            train, test, selected, avail, evals, results, rows, dist,
                            scratch>>

\* knn_predict, lines 38 to 40: no column, the run fails
PredictNoColumns ==
    /\ pc = "predict"
    /\ columns = <<>>
    /\ pc' = "failed"
    /\ PredictFrame
    /\ UNCHANGED <<records, range, k, min, groups, hashOrder, output>>

\* knn_predict, lines 49 to 56: the datapoint has not one number per column
PredictArity ==
    /\ pc = "predict"
    /\ columns # <<>>
    /\ Len(datapoint) # Len(columns)
    /\ pc' = "failed"
    /\ PredictFrame
    /\ UNCHANGED <<records, range, k, min, groups, hashOrder, output>>

\* a collection of the records that does not look at the datapoint's length
PredictCollectUnchecked ==
    /\ pc = "predict"
    /\ columns # <<>>
    /\ \E recs \in {collect_records(columns, rows)} :
          /\ records' = recs
          /\ range' = get_range(kvalue, Len(recs))
    /\ pc' = "predict_k"
    /\ PredictFrame
    /\ UNCHANGED <<k, min, groups, hashOrder, output>>

\* knn_predict, lines 58 to 62: the records are collected, the k values
\* computed
PredictCollect ==
    /\ pc = "predict"
    /\ columns # <<>>
    /\ Len(datapoint) = Len(columns)
    /\ \E recs \in {collect_records(columns, rows)} :
          /\ records' = recs
          /\ range' = get_range(kvalue, Len(recs))
    /\ pc' = "predict_k"
    /\ PredictFrame
    /\ UNCHANGED <<k, min, groups, hashOrder, output>>

\* one turn of `for k in arg.k.get_range(records.len())`, lines 62 to 77
PredictK ==
    /\ pc = "predict_k"
    /\ range # <<>>
    /\ k' = Head(range)
    /\ range' = Tail(range)
    /\ IF TallyPanics(Min(Head(range), Len(records)), Len(records))
       THEN /\ pc' = "panicked"
            /\ UNCHANGED <<min, groups, hashOrder, output>>
       ELSE \E r \in {predict_classify_datapoint(Head(range), records, algo, datapoint)} :
            \E order \in Orders(DOMAIN r[2]) :
                /\ min' = r[1]
                /\ groups' = r[2]
                /\ hashOrder' = order
                /\ output' = Append(output, KValueLine(Head(range), datapoint))
                                 \o GroupLines(r[2], order, r[1])
                /\ pc' = "predict_k"
    /\ PredictFrame
    /\ UNCHANGED records

\* knn_predict, line 79: no k is left
PredictDone ==
    /\ pc = "predict_k"
    /\ range = <<>>
    /\ pc' = "done"
    /\ PredictFrame
    /\ UNCHANGED <<records, range, k, min, groups, hashOrder, output>>

\* main, lines 15 to 17: no column, the run fails
MainNoColumns ==
    /\ pc = "main"
    /\ columns = <<>>
    /\ pc' = "failed"
    /\ PredictFrame
    /\ UNCHANGED <<records, range, k, min, groups, hashOrder, output>>

\* main, line 43, and parse_datapoint, lines 356 to 358
MainArity ==
    /\ pc = "main"
    /\ columns # <<>>
    /\ Len(datapoint) # Len(columns)
    /\ pc' = "failed"
    /\ PredictFrame
    /\ UNCHANGED <<records, range, k, min, groups, hashOrder, output>>

\* main, lines 45 to 66: the records are collected, the k values computed
MainCollect ==
    /\ pc = "main"
    /\ columns # <<>>
    /\ Len(datapoint) = Len(columns)
    /\ \E recs \in {collect_records(columns, rows)} :
          /\ records' = recs
          /\ range' = get_range(kvalue, Len(recs))
    /\ pc' = "main_k"
    /\ PredictFrame
    /\ UNCHANGED <<k, min, groups, hashOrder, output>>

\* one turn of `for k in args.k.get_range(records.len())`, lines 66 to 97:
\* the tally is taken over collected[0..k) and divided by k
MainK ==
    /\ pc = "main_k"
    /\ range # <<>>
    /\ k' = Head(range)
    /\ range' = Tail(range)
    /\ IF TallyPanics(Head(range), Len(records))
       THEN /\ pc' = "panicked"
            /\ UNCHANGED <<min, groups, hashOrder, output>>
       ELSE \E g \in {main_classify(Head(range), records, algo, datapoint)} :
            \E order \in Orders(DOMAIN g) :
                /\ min' = Head(range)
                /\ groups' = g
                /\ hashOrder' = order
                /\ output' = Append(output, KValueLine(Head(range), <<>>))
                                 \o GroupLines(g, order, Head(range))
                /\ pc' = "main_k"
    /\ PredictFrame
    /\ UNCHANGED records

\* main, line 99: no k is left
MainDone ==
    /\ pc = "main_k"
    /\ range = <<>>
    /\ pc' = "done"
    /\ PredictFrame
    /\ UNCHANGED <<records, range, k, min, groups, hashOrder, output>>

NextPredict ==
    \/ PredictNoColumns
    \/ PredictArity
    \/ PredictCollect
    \/ PredictK
    \/ PredictDone
    \/ MainNoColumns
    \/ MainArity
    \/ MainCollect
    \/ MainK
    \/ MainDone

SpecPredict == InitPredict /\ [][NextPredict]_vars

\* either program is one thread of straight-line code
SpecPredictLive == SpecPredict /\ WF_vars(NextPredict)

----------------------------------------------------------------------------
(* A run of any of the three programs *)

InitRun == InitSearch \/ InitPredict

NextRun == NextSearch \/ NextPredict

SpecRun == InitRun /\ [][NextRun]_vars

\* each program is one thread of straight-line code: a step that can be
\* taken is taken. The search runs are those of SpecSearchLive
SpecRunLive == (InitSearchLive \/ InitPredict) /\ [][NextRun]_vars /\ WF_vars(NextRun)

----------------------------------------------------------------------------
(* Properties of the k-range model, checked under SpecK *)

\* the sequence low, low + step, low + 2 * step, ... of the values below bound
Ascending(low, step, bound) ==
    LET n == IF low >= bound THEN 0 ELSE ((bound - low - 1) \div step) + 1
    IN  [i \in 1..n |-> low + (i - 1) * step]

\* C4: for every parsed KValue (low, exclusive high, step) and every
\* total_records, get_range yields exactly the ascending sequence low,
\* low + step, ... of the values strictly below min(total_records, exclusive
\* high), and nothing when low is not below that bound; "3" with total 100
\* yields [3], "3-5" with 100 yields [3, 4, 5], "2-10,3" with 100 yields
\* [2, 5, 8], and "5-10" with 7 yields [5, 6].
C4_GetRange ==
    pc = "ranged" =>
        LET bound == IF total <= kvalue.high THEN total ELSE kvalue.high
        IN  /\ range = Ascending(kvalue.low, kvalue.step, bound)
            /\ \A i \in DOMAIN range : range[i] < bound /\ range[i] >= kvalue.low
            /\ (kvalue.low >= bound => range = <<>>)
            /\ (kvalue.low < bound => range[1] = kvalue.low
                                      /\ range[Len(range)] + kvalue.step >= bound)
            /\ (given = FixedText(3) /\ total = 100 => range = <<3>>)
            /\ (given = RangeText(3, 5) /\ total = 100 => range = <<3, 4, 5>>)
            /\ (given = RangeStepText(2, 10, 3) /\ total = 100 => range = <<2, 5, 8>>)
            /\ (given = RangeText(5, 10) /\ total = 7 => range = <<5, 6>>)

C4_Witness ==
    /\ pc = "ranged" /\ given = RangeText(5, 10) /\ total = 7
    /\ kvalue = KValue(5, 11, 1) /\ range = <<5, 6>>

\* the numbers the statements about texts range over
TextNumbers == KNumbers \cup {5, 10}

Fails == kvalue.state = "err"
Succeeds == kvalue.state = "ok"

\* C5: parsing fails (an error, no KValue) for a fixed k of 0, a range whose
\* low is 0, a range whose low is greater than its high, a step of 0 and a
\* step without a range; it succeeds for every "<n>" with n >= 1, every
\* "<low>-<high>" with 1 <= low <= high and every "<low>-<high>,<step>" with
\* also step >= 1.
C5_Parse ==
    pc # "parse" =>
        /\ \A n \in TextNumbers :
              given = FixedText(n) => IF n = 0 THEN Fails ELSE Succeeds
        /\ \A l, h \in TextNumbers :
              given = RangeText(l, h) => IF l = 0 \/ l > h THEN Fails ELSE Succeeds
        /\ \A l, h, st \in TextNumbers :
              given = RangeStepText(l, h, st) =>
                  IF l = 0 \/ l > h \/ st = 0 THEN Fails ELSE Succeeds
        /\ \A n, st \in TextNumbers :
              given = FixedStepText(n, st) => Fails

\* the part of C5 that the code satisfies: the same statement for the texts
\* whose fixed k or high bound is below the largest usize
C5_ParseBelowMax ==
    pc # "parse" =>
        /\ \A n \in TextNumbers :
              given = FixedText(n) =>
                  IF n = 0 THEN Fails ELSE (n < UsizeMax => Succeeds)
        /\ \A l, h \in TextNumbers :
              given = RangeText(l, h) =>
                  IF l = 0 \/ l > h THEN Fails ELSE (h < UsizeMax => Succeeds)
        /\ \A l, h, st \in TextNumbers :
              given = RangeStepText(l, h, st) =>
                  IF l = 0 \/ l > h \/ st = 0 THEN Fails ELSE (h < UsizeMax => Succeeds)
        /\ \A n, st \in TextNumbers :
              given = FixedStepText(n, st) => Fails

----------------------------------------------------------------------------
(* Properties of the splitter, checked under SpecSplit *)

\* the number of places of sequence q that hold x
Occurrences(q, x) == Cardinality({i \in 1..Len(q) : q[i] = x})

\* the references of q whose record has label l, in the order of q
OfLabel(q, l) == SelectSeq(q, LAMBDA i : records[i].label = l)

\* the references of the records with label l, in input order
GroupOf(l) == OfLabel([i \in 1..Len(records) |-> i], l)

\* floor(n * split / SplitDen): the a with a <= n * split / SplitDen < a + 1
FloorOfProduct(n) ==
    CHOOSE a \in 0..n : a * SplitDen <= n * split /\ n * split < (a + 1) * SplitDen

\* the place of the first record with label l in the input
FirstSeen(l) == CHOOSE i \in 1..Len(records) :
                    records[i].label = l /\ \A j \in 1..(i - 1) : records[j].label # l

\* C6: train and test partition the records: their lengths add up to
\* records.len() and every record is in exactly one of them, exactly once.
C6_Partition ==
    pc = "splitdone" =>
        /\ Len(train) + Len(test) = Len(records)
        /\ \A i \in 1..Len(train) : train[i] \in 1..Len(records)
        /\ \A i \in 1..Len(test) : test[i] \in 1..Len(records)
        /\ \A r \in 1..Len(records) : Occurrences(train, r) + Occurrences(test, r) = 1

C6_Witness ==
    /\ pc = "splitdone" /\ Len(records) = MaxSplitRecords
    /\ Cardinality(LabelsOf(records)) = 2 /\ split = 2
    /\ Len(train) = 2 /\ Len(test) = 2

\* C7: for every label group of size n and fraction f, exactly floor(n * f)
\* records of the group are in test, namely the first ones of the group in
\* input order, and the other records of the group, from that index on, are
\* in train.
C7_Stratified ==
    pc = "splitdone" =>
        \A l \in LabelsOf(records) :
            LET group  == GroupOf(l)
                amount == FloorOfProduct(Len(group))
            IN  /\ Len(OfLabel(test, l)) = amount
                /\ OfLabel(test, l) = SubSeq(group, 1, amount)
                /\ OfLabel(train, l) = SubSeq(group, amount + 1, Len(group))

\* a group of three records at fraction 3/4: two of them go to test
C7_Witness ==
    /\ pc = "splitdone" /\ split = 3
    /\ \E l \in LabelsOf(records) :
          /\ Len(GroupOf(l)) = 3
          /\ Len(OfLabel(test, l)) = 2 /\ Len(OfLabel(train, l)) = 1

\* q keeps the label groups in the order in which the labels first occur in
\* the input, and the records of one label in input order
InFirstSeenOrder(q) ==
    \A i, j \in 1..Len(q) :
        i < j =>
            /\ FirstSeen(records[q[i]].label) <= FirstSeen(records[q[j]].label)
            /\ (records[q[i]].label = records[q[j]].label => q[i] < q[j])

\* C8: in both train and test the label groups appear in the order in which
\* each label first occurs in the input, and the records of one label keep
\* their relative input order.
C8_FirstSeenOrder ==
    pc = "splitdone" => InFirstSeenOrder(train) /\ InFirstSeenOrder(test)

\* what the code gives of C8: the records of one label keep their input order
C8_WithinGroupOrder ==
    pc = "splitdone" =>
        \A l \in LabelsOf(records) :
            /\ \A i, j \in 1..Len(OfLabel(train, l)) :
                  i < j => OfLabel(train, l)[i] < OfLabel(train, l)[j]
            /\ \A i, j \in 1..Len(OfLabel(test, l)) :
                  i < j => OfLabel(test, l)[i] < OfLabel(test, l)[j]

\* every record of the group of label l is in q
AllOfGroupIn(q, l) == OfLabel(q, l) = GroupOf(l)

\* C9 as stated: with fraction 0 every record goes to train and test is empty;
\* with fraction 1, or when floor(group_size * fraction) is 0, all records of
\* the group go to test.
C9_AsStated ==
    pc = "splitdone" =>
        /\ (split = 0 => test = <<>> /\ Len(train) = Len(records))
        /\ \A l \in LabelsOf(records) :
              (split = SplitDen \/ FloorOfProduct(Len(GroupOf(l))) = 0)
                  => AllOfGroupIn(test, l)

\* C9 as amended: with fraction 0 every record goes to train and test is
\* empty; with fraction 1 all records of every group go to test; when
\* floor(group_size * fraction) is 0 all records of the group go to train.
C9_EdgeCases ==
    pc = "splitdone" =>
        /\ (split = 0 => test = <<>> /\ Len(train) = Len(records))
        /\ (split = SplitDen => train = <<>> /\ Len(test) = Len(records))
        /\ \A l \in LabelsOf(records) :
              /\ (split = SplitDen => AllOfGroupIn(test, l) /\ OfLabel(train, l) = <<>>)
              /\ (FloorOfProduct(Len(GroupOf(l))) = 0
                     => AllOfGroupIn(train, l) /\ OfLabel(test, l) = <<>>)

\* a group of one record at fraction 1/4 beside a group of three records
C9_Witness ==
    /\ pc = "splitdone" /\ split = 1 /\ Len(records) = 4
    /\ \E l \in LabelsOf(records) :
          /\ Len(GroupOf(l)) = 1
          /\ OfLabel(train, l) = GroupOf(l) /\ OfLabel(test, l) = <<>>

----------------------------------------------------------------------------
(* Properties of the feature search, checked under SpecSearchLive *)

\* the members of a sequence
Members(q) == {q[i] : i \in 1..Len(q)}

\* what one step of the search does to `selected` and `avail`:
\*  - a k-iteration starts with nothing selected and every column available;
\*  - a selection step moves one column, not selected before, from `avail` to
\*    the end of `selected`;
\*  - a k-iteration ends with `avail` empty, after len(columns) selections.
SelectionStep ==
    /\ (pc = "for_k" /\ pc' = "while") =>
          selected' = <<>> /\ avail' = Enumerate(columns)
    /\ (pc = "while" /\ pc' = "while") =>
          \E i \in 1..Len(avail) :
              /\ avail[i] \notin Members(selected)
              /\ selected' = Append(selected, avail[i])
              /\ avail' = SubSeq(avail, 1, i - 1) \o SubSeq(avail, i + 1, Len(avail))
              /\ Len(selected') + Len(avail') = Len(columns)
    /\ (pc = "while" /\ pc' = "for_k") =>
          /\ avail = <<>>
          /\ Len(selected) = Len(columns)
          /\ Members(selected) = Members(Enumerate(columns))

\* C10: for every k value `selected` starts empty and `avail` as the full
\* candidate list; each step moves exactly one column, not selected before in
\* this k-iteration, from `avail` to the end of `selected`; the k-iteration
\* ends after exactly len(candidate_columns) steps with `avail` empty; the
\* whole search terminates.
C10_SearchProgress ==
    /\ [][SelectionStep]_vars
    /\ <>(pc \in {"done", "failed"})

\* a k-iteration over two columns has ended, a second one is under way
C10_Witness ==
    /\ pc = "while" /\ Len(columns) = 2 /\ Len(results) = 3
    /\ Len(selected) = 1 /\ Len(avail) = 1

\* the last entry of a sequence
LastOf(q) == q[Len(q)]

\* a >= b on two accuracies that are numbers
Ge(a, b) == ~IsNaN(a) /\ ~IsNaN(b) /\ a.num * b.den >= b.num * a.den

\* place i of the evaluations `ev` holds the highest accuracy of the step
IsHighest(ev, i) == \A j \in DOMAIN ev : Ge(ev[i].p_correct, ev[j].p_correct)

\* the first, and the last, place of `ev` that holds the highest accuracy
FirstHighest(ev) == CHOOSE i \in DOMAIN ev :
                        IsHighest(ev, i) /\ \A j \in 1..(i - 1) : ~IsHighest(ev, j)
LastHighest(ev) == CHOOSE i \in DOMAIN ev :
                       IsHighest(ev, i) /\ \A j \in (i + 1)..Len(ev) : ~IsHighest(ev, j)

\* a selection step has been made, on accuracies that are numbers; `evals`
\* holds the evaluations of that step and the end of `selected` the column
\* it committed
Stepped == selected # <<>> /\ test # <<>>

\* C11: at each selection step, when two or more columns of `avail` reach the
\* same highest accuracy, the column committed is the one that comes earliest
\* in `avail`.
C11_EarliestWinsTies ==
    Stepped => LET e == evals[FirstHighest(evals)]
               IN  LastOf(selected) = <<e.index, e.col>>

\* what the code does: the column committed is the latest of `avail` that
\* reaches the highest accuracy
C11_LatestWinsTies ==
    Stepped => LET e == evals[LastHighest(evals)]
               IN  LastOf(selected) = <<e.index, e.col>>

\* the split has been made: `train` and `test` are set
SplitMade == pc \in {"for_k", "while", "done"}

\* the k values of the run
SearchKs == get_range(kvalue, Len(train))

\* the columns of the first n entries of `selected`
ColsOf(sel, n) == [i \in 1..n |-> sel[i][2]]

\* one step of the run leaves the log alone or appends one result to it, and
\* it appends exactly when it completes a selection step
ResultsStep ==
    /\ \/ results' = results
       \/ /\ Len(results') = Len(results) + 1
          /\ SubSeq(results', 1, Len(results)) = results
    /\ (results' # results) <=> (pc = "while" /\ pc' = "while")

\* the log in a state of the run: the j-th result is the one of selection
\* step ((j - 1) mod n) + 1 of the ((j - 1) div n) + 1-th k value, n being the
\* number of candidate columns
ResultsOrdered ==
    SplitMade =>
        LET n == Len(columns)
        IN  /\ \A j \in 1..Len(results) :
                  LET b == ((j - 1) \div n) + 1
                      i == ((j - 1) % n) + 1
                  IN  /\ b <= Len(SearchKs)
                      /\ results[j].k = SearchKs[b]
                      /\ Len(results[j].cols) = i
                      /\ i > 1 => SubSeq(results[j].cols, 1, i - 1) = results[j - 1].cols
            /\ \A i, j \in 1..Len(results) : i < j => results[i].k <= results[j].k
            /\ (pc = "while" /\ selected # <<>>) =>
                  /\ LastOf(results).k = k
                  /\ LastOf(results).cols = ColsOf(selected, Len(selected))
            /\ pc = "done" => Len(results) = Len(SearchKs) * n

\* C12: the result log is append-only and ordered: one SearchResult is
\* appended per completed selection step, in the order the steps complete, so
\* the log is sorted by k ascending (the k values being those of
\* get_range(train.len())) and, within one k, by selection step, the i-th
\* result holding the first i selected columns; an appended result is never
\* changed afterwards.
C12_ResultLog == [][ResultsStep]_vars /\ []ResultsOrdered

\* a finished run over two columns and two k values
C12_Witness ==
    /\ pc = "done" /\ Len(results) = 4
    /\ results[1].k < results[3].k
    /\ Len(results[3].cols) = 1 /\ Len(results[4].cols) = 2

\* the f64 x is a real number of [0, 100]
InPercentRange(x) == ~IsNaN(x) /\ 0 <= x.num /\ x.num <= 100 * x.den

\* C13: every SearchResult appended by the search has an accuracy_percent
\* that is a real number in [0, 100], for every record set and every split
\* fraction in [0, 1], fraction 0 and its empty test set included.
C13_PercentInRange == \A j \in 1..Len(results) : InPercentRange(results[j].percent)

\* what the code gives: a percent in [0, 100] when the test set is not empty,
\* and NaN when it is
C13_PercentWhenTested ==
    \A j \in 1..Len(results) :
        IF test # <<>> THEN InPercentRange(results[j].percent)
                       ELSE IsNaN(results[j].percent)

\* the split of the run is the one every iteration order of the label
\* groups gives
SplitDeterministic ==
    SplitMade =>
        \A order \in Orders(LabelsOf(records)) :
            \E r \in {split_dataset(records, split, order)} :
                r.train = train /\ r.test = test

\* the evaluations of the last selection step are the ones every iteration
\* order of the vote tally gives; the step was made on `selected` without
\* its last entry and on the columns listed in `evals`
TallyDeterministic ==
    (pc \in {"while", "for_k"} /\ selected # <<>>) =>
        \A order \in Orders(LabelsOf(records)) :
            Evaluate(records, train, test, algo, k,
                     SubSeq(selected, 1, Len(selected) - 1),
                     [i \in 1..Len(evals) |-> <<evals[i].index, evals[i].col>>],
                     order) = evals

\* C16: the search is deterministic: two runs on the same records, columns,
\* distance function, k specification and test fraction produce the same
\* train and test sequences and the same sequence of SearchResults, whatever
\* iteration order the label maps (the split's label groups and the vote
\* tally) happen to have.
C16_Deterministic == SplitDeterministic /\ TallyDeterministic

----------------------------------------------------------------------------
(* Properties of the runs as a whole, checked under SpecRun *)

\* the run is at its entry with a configuration error: knn_predict without
\* a column or with a datapoint that has not one number per column,
\* knn_search without a column
ConfigError ==
    \/ pc = "predict" /\ (columns = <<>> \/ Len(datapoint) # Len(columns))
    \/ pc = "start" /\ columns = <<>>

\* no record has been collected, no split or classification made, no line
\* printed and no result logged
NothingDone ==
    /\ records = <<>> /\ train = <<>> /\ test = <<>>
    /\ k = 0 /\ min = 0 /\ groups = <<>> /\ evals = <<>>
    /\ results = <<>> /\ output = <<>>

\* C14: configuration errors are detected before any computation starts and
\* give no partial output: in knn_predict an empty column list or a datapoint
\* whose length differs from the number of columns, and in knn_search an
\* empty column list, make the run fail before any record is collected, any
\* split or classification made, and any result or progress line produced.
C14_ConfigErrors ==
    /\ [](pc = "failed" => NothingDone)
    /\ [][ConfigError => (pc' = "failed" /\ NothingDone')]_vars

\* knn_predict has failed on a datapoint of two numbers for one column, the
\* csv file holding rows
C14_Witness ==
    /\ pc = "failed" /\ rows # <<>>
    /\ Len(columns) = 1 /\ Len(datapoint) = 2

\* the run has ended: with Ok(()), or with the error of a configuration
\* that has no column or, in the predict path, a datapoint of another length
\* than the column list
Completed ==
    \/ pc = "done"
    \/ /\ pc = "failed"
       /\ columns = <<>> \/ (datapoint # <<>> /\ Len(datapoint) # Len(columns))

\* the lines of `output` that report a k, a label group or a result
Reported == SelectSeq(output, LAMBDA l : l.line # "train size")

\* C15: degenerate inputs never panic or raise: for an empty record set, for
\* a requested k larger than the number of records, and for any split
\* fraction in [0, 1], the predict path and the search path run to completion
\* without an out-of-bounds access or other panic, and zero records yield
\* empty results.
C15_NoPanic ==
    /\ [](pc # "panicked")
    /\ [](pc = "failed" => Completed)
    /\ [](pc = "done" /\ rows = <<>> => results = <<>> /\ Reported = <<>>)
    /\ <>Completed

\* a search over no record has run to its end
C15_Witness ==
    /\ pc = "done" /\ rows = <<>> /\ columns # <<>>
    /\ output = <<TrainSizeLine(<<>>, <<>>)>>

----------------------------------------------------------------------------
(* Properties of the distance functions, checked under SpecDistance *)

\* the sum of f over the coordinates 1..n of the pair (a, b)
RECURSIVE SumOver(_, _, _, _)
SumOver(f(_, _), a, b, n) == IF n = 0 THEN 0 ELSE SumOver(f, a, b, n - 1) + f(a[n], b[n])

AbsDiff(x, y) == IF x >= y THEN x - y ELSE y - x
SqDiff(x, y) == (x - y) * (x - y)

\* r is the square root of n in the fixed point of the model: the largest
\* number of thousandths whose square is not above n
IsRootOf(r, n) == r >= 0 /\ r * r <= n * 1000000 /\ (r + 1) * (r + 1) > n * 1000000

\* C17: for all equal-length vectors a and b, euclidean(a, b) >= 0 and
\* manhattan(a, b) >= 0, euclidean(a, a) = 0 and manhattan(a, a) = 0,
\* euclidean(a, b) = euclidean(b, a) and manhattan(a, b) = manhattan(b, a);
\* manhattan is the sum of the absolute coordinate differences and euclidean
\* the square root of the sum of the squared coordinate differences.
C17_DistanceLaws ==
    pc = "measured" =>
        LET a == datapoint
            b == records[1].data
        IN  /\ dist.ab >= 0
            /\ dist.aa = 0
            /\ dist.ab = dist.ba
            /\ algo = "manhattan" => dist.ab = SumOver(AbsDiff, a, b, Len(a))
            /\ algo = "euclidean" => IsRootOf(dist.ab, SumOver(SqDiff, a, b, Len(a)))

\* the manhattan distance of two vectors that differ in both coordinates,
\* one going up and one going down
C17_Witness ==
    /\ pc = "measured" /\ algo = "manhattan"
    /\ datapoint = <<0, 2>> /\ records[1].data = <<1, 0>>
    /\ dist.ab = 3

----------------------------------------------------------------------------
(* Properties of the classifier, checked under SpecClassify *)

Classified == pc \in {"owned", "predicted"}

\* the distance of every record of the call to the query
Dists == [i \in 1..Len(records) |-> Distance(algo, datapoint, records[i].data)]

\* the number of requested neighbours that exist
EffectiveK == IF k <= Len(records) THEN k ELSE Len(records)

\* the sum of the counts of a tally
RECURSIVE TallySum(_, _)
TallySum(g, keys) ==
    IF keys = {} THEN 0
    ELSE LET key == CHOOSE x \in keys : TRUE
         IN  g[key] + TallySum(g, keys \ {key})

\* C1: for a record sequence of size n, k >= 1 and either distance function,
\* both classify_datapoint_owned and predict.rs's classify_datapoint return
\* effective_k = min(k, n); for n = 0 the tally is empty and effective_k is 0.
C1_EffectiveK ==
    Classified =>
        /\ min = EffectiveK
        /\ (k <= Len(records) => min = k)
        /\ (k > Len(records) => min = Len(records))
        /\ (Len(records) = 0 => min = 0 /\ DOMAIN groups = {})

C1_Witness ==
    /\ pc = "predicted" /\ records = <<>> /\ k = 2 /\ min = 0 /\ DOMAIN groups = {}

\* C2: the tally of classify_datapoint_owned maps each label to the number of
\* times it occurs among the first min(k, n) records sorted ascending by
\* distance, holds no other label, and its counts sum to effective_k; on the
\* 8-point fixture the query (1.5, 1.0) gives {a: 2} for k = 2 and
\* {a: 2, b: 1} for k = 3 under both distance functions.
C2_Tally ==
    pc = "owned" =>
        LET d      == Dists
            pairs  == [i \in 1..Len(records) |-> <<d[i], records[i].label>>]
            sorted == SortBy(pairs)
            n      == Len(records)
        IN  /\ Len(sorted) = n
            /\ \A i \in 1..(n - 1) : sorted[i][1] <= sorted[i + 1][1]
            /\ \A i \in 1..n :
                  Cardinality({j \in 1..n : sorted[j] = pairs[i]})
                  = Cardinality({j \in 1..n : pairs[j] = pairs[i]})
            /\ DOMAIN groups = {sorted[i][2] : i \in 1..EffectiveK}
            /\ \A l \in DOMAIN groups :
                  groups[l] = Cardinality({i \in 1..EffectiveK : sorted[i][2] = l})
            /\ TallySum(groups, DOMAIN groups) = min
            /\ (records = RECORDS /\ datapoint = T1 /\ k = 2 => groups = ("a" :> 2))
            /\ (records = RECORDS /\ datapoint = T1 /\ k = 3 => groups = ("a" :> 2 @@ "b" :> 1))

C2_Witness ==
    /\ pc = "owned" /\ records = RECORDS /\ datapoint = T1 /\ k = 3
    /\ algo = "manhattan" /\ groups = ("a" :> 2 @@ "b" :> 1)

\* the records that come before record i when the records are ordered by
\* distance d and, among equal distances, by input position
Before(d, i) == {j \in DOMAIN d : d[j] < d[i] \/ (d[j] = d[i] /\ j < i)}

\* the m nearest records, ties going to the earlier input position
Nearest(d, m) == {i \in DOMAIN d : Cardinality(Before(d, i)) < m}

\* C3: the sort is stable: among records at the same distance the ones counted
\* are those that come first in the input, so the tally is the one of the
\* first effective_k records in the order (distance, input position); on the
\* 8-point fixture the query (1.5, 1.5) gives {a: 1, b: 1} for k = 2 and
\* {a: 2, b: 1} for k = 3.
C3_Stable ==
    pc = "owned" =>
        LET near == Nearest(Dists, EffectiveK)
        IN  /\ DOMAIN groups = {records[i].label : i \in near}
            /\ \A l \in DOMAIN groups :
                  groups[l] = Cardinality({i \in near : records[i].label = l})
            /\ (records = RECORDS /\ datapoint = T2 /\ k = 2 => groups = ("a" :> 1 @@ "b" :> 1))
            /\ (records = RECORDS /\ datapoint = T2 /\ k = 3 => groups = ("a" :> 2 @@ "b" :> 1))

\* four fixture records are at the same euclidean distance of (1.5, 1.5), in
\* input order a, b, a, b, and three of them are counted
C3_Witness ==
    /\ pc = "owned" /\ records = RECORDS /\ datapoint = T2 /\ k = 3 /\ algo = "euclidean"
    /\ {i \in 1..Len(records) : Dists[i] = Dists[1]} = {1, 2, 5, 6}
    /\ Nearest(Dists, 3) = {1, 2, 5}
    /\ groups = ("a" :> 2 @@ "b" :> 1)

----------------------------------------------------------------------------
(* Properties of reused buffers, checked under SpecClassify *)

\* C18: reused scratch buffers carry no cross-call state: a classification
\* that is handed buffers left over from an earlier call returns the same
\* effective k and the same tally as the same classification run with fresh,
\* empty buffers, for any sequence of earlier calls.
C18_BuffersStateless ==
    pc = "buffered" =>
        <<min, groups>> = classify_datapoint_owned(k, records, algo, datapoint)

\* what the code gives: the first call on empty buffers agrees with a call
\* on fresh ones
C18_FirstCall ==
    (pc = "buffered" /\ Len(scratch) = Len(records)) =>
        <<min, groups>> = classify_datapoint_owned(k, records, algo, datapoint)

----------------------------------------------------------------------------
(* Properties of the scored selection, checked under SpecSearch *)

\* the columns selected before the last selection step
SelectedBefore == SubSeq(selected, 1, Len(selected) - 1)

\* the distances of test record t to the train records, both projected on
\* the columns `sel` and then column c
Projected(sel, c, t) ==
    Only({ [j \in 1..Len(train) |->
               Distance(algo, a, collect_data(records[train[j]], sel, c))] :
           a \in {collect_data(records[t], sel, c)} })

\* the labels of the k nearest train records of t, ties in distance going
\* to the record that comes earlier in `train`
NearLabels(sel, c, t) ==
    Only({ Only({ [j \in near |-> records[train[j]].label] :
                  near \in {Nearest(d, Min(k, Len(train)))} }) :
           d \in {Projected(sel, c, t)} })

\* the number of the k nearest records that carry the label
Votes(near, label) == Cardinality({j \in DOMAIN near : near[j] = label})

\* the labels with the highest count
TopLabels(near) ==
    {l \in {near[j] : j \in DOMAIN near} :
        \A j \in DOMAIN near : Votes(near, l) >= Votes(near, near[j])}

\* the label predicted from the nearest records: the highest-count label
\* that the iteration of the tally meets first
Predicted(near) ==
    Only({ hashOrder[CHOOSE i \in DOMAIN hashOrder :
                        /\ hashOrder[i] \in top
                        /\ \A j \in 1..(i - 1) : hashOrder[j] \notin top] :
           top \in {TopLabels(near)} })

\* the test records whose predicted label is their actual label
Passed(sel, c) ==
    Cardinality({n \in DOMAIN test :
                    \E near \in {NearLabels(sel, c, test[n])} :
                        /\ DOMAIN near # {}
                        /\ Predicted(near) = records[test[n]].label})

\* the f64 comparison a < b: false when either side is NaN
Lt(a, b) == Gt(b, a)

\* the f64 x is 100 times the f64 p
TimesHundred(x, p) ==
    IF IsNaN(p) THEN IsNaN(x)
    ELSE ~IsNaN(x) /\ x.num * p.den = 100 * p.num * x.den

\* C19: at every selection step of the feature search, each available column
\* c is scored by passed / test.len(), passed counting the test records whose
\* predicted label (the highest-count label of the k-nearest tally over
\* train, both projected on selected + [c]) is their actual label; the column
\* committed has an accuracy not lower than that of any other available
\* column, and the SearchResult records that accuracy times 100.
C19_ScoredSelection ==
    (selected # <<>> /\ SplitMade) =>
        /\ \A i \in DOMAIN evals :
              /\ evals[i].passed = Passed(SelectedBefore, evals[i].index)
              /\ evals[i].p_correct = Ratio(evals[i].passed, Len(test))
        /\ \E i \in DOMAIN evals :
              /\ LastOf(selected) = <<evals[i].index, evals[i].col>>
              /\ \A j \in DOMAIN evals : ~Lt(evals[i].p_correct, evals[j].p_correct)
              /\ TimesHundred(LastOf(results).percent, evals[i].p_correct)

\* a first step that chose between two columns of different accuracy
C19_Witness ==
    /\ pc = "while" /\ Len(selected) = 1 /\ Len(evals) = 2
    /\ Gt(evals[2].p_correct, evals[1].p_correct)
    /\ evals[1].passed > 0
    /\ LastOf(selected) = <<evals[2].index, evals[2].col>>

----------------------------------------------------------------------------
(* Properties of the k values of a run, checked under SpecRun *)

\* the printed lines of one kind
LinesOf(kind) == {i \in DOMAIN output : output[i].line = kind}

\* k is a k of a pool of `pool` records: at least 1 and below the pool
\* size, so that the k nearest records are k records, all inside the pool
KOfPool(kk, pool) ==
    /\ 1 <= kk /\ kk < pool
    /\ Min(kk, pool) = kk
    /\ ~TallyPanics(kk, pool)

\* C20: every k for which a classification is performed, in the predict
\* path, the search path and the single-file program, satisfies
\* 1 <= k < size of the neighbour pool (records.len(), or train.len() for the
\* search); hence effective_k = k in every such call, a k equal to or larger
\* than the pool size is never evaluated, the divisor of a percentage is
\* never 0, and the indexing collected[0..k) is always in bounds.
C20_KBelowPool ==
    /\ pc # "panicked"
    /\ \A i \in LinesOf("k value") : KOfPool(output[i].k, Len(records))
    /\ \A i \in LinesOf("k") : KOfPool(output[i].k, Len(train))
    /\ \A i \in LinesOf("group") : output[i].percent.den >= 1
    /\ (pc \in {"predict_k", "main_k"} /\ k # 0) =>
           KOfPool(k, Len(records)) /\ min = k
    /\ pc = "while" => KOfPool(k, Len(train))

\* a finished predict run on three records with the range 1-3: k = 1 and
\* k = 2 were evaluated, k = 3 was not
C20_Witness ==
    /\ pc = "done" /\ Len(records) = 3 /\ train = <<>>
    /\ kvalue.low = 1 /\ kvalue.high = 4
    /\ {output[i].k : i \in LinesOf("k value")} = {1, 2}
    /\ min = 2

----------------------------------------------------------------------------
(* Properties of the counters of the search, checked under SpecSearch *)

\* the counters c account for every test record, none of them as unknown
AllJudged(c) ==
    /\ c.passed + c.failed + c.unknown = Len(test)
    /\ c.unknown = 0

\* C21: in the feature search, the counters of every evaluation of a
\* candidate column satisfy passed + failed + unknown = test.len(), and
\* unknown is always 0: the vote tally of a test record is never empty,
\* because a k-iteration only runs when train holds more than k >= 1 records.
C21_CountersComplete ==
    /\ \A i \in LinesOf("column") : AllJudged(output[i])
    /\ (selected # <<>> /\ SplitMade) =>
           /\ \A i \in DOMAIN evals : AllJudged(evals[i])
           /\ 1 <= k /\ k < Len(train)

\* a step that evaluated a column on two test records, one judged right and
\* one judged wrong
C21_Witness ==
    /\ pc = "while" /\ selected # <<>> /\ Len(test) = 2
    /\ \E i \in DOMAIN evals : evals[i].passed = 1 /\ evals[i].failed = 1

----------------------------------------------------------------------------
(* Properties of the stored high bound, checked under SpecK *)

\* the parsed KValue is the one written as low, inclusive high and step
StoredAs(low, high, step) ==
    /\ kvalue.low = low
    /\ kvalue.high = high + 1
    /\ kvalue.step = step

\* the KValue of a successful parse is well formed, and it is the written
\* one when the written high bound is one of `highs`
WellFormed(highs) ==
    (pc # "parse" /\ Succeeds) =>
        /\ 1 <= kvalue.low /\ kvalue.low < kvalue.high /\ kvalue.step >= 1
        /\ \A n \in TextNumbers :
              (given = FixedText(n) /\ n \in highs) => StoredAs(n, n, 1)
        /\ \A l, h \in TextNumbers :
              (given = RangeText(l, h) /\ h \in highs) => StoredAs(l, h, 1)
        /\ \A l, h, st \in TextNumbers :
              (given = RangeStepText(l, h, st) /\ h \in highs) => StoredAs(l, h, st)

\* the numbers written in `given`
Written ==
    {n \in TextNumbers :
        \/ given = FixedText(n)
        \/ \E l \in TextNumbers : given = RangeText(l, n)
        \/ \E l, st \in TextNumbers : given = RangeStepText(l, n, st)}

\* C22: every KValue produced by a successful parse satisfies
\* 1 <= low < stored exclusive high and step >= 1, the stored exclusive high
\* being the written inclusive high plus 1 (for a fixed k, k + 1); this holds
\* for every accepted machine-word value, the largest usize included: the
\* + 1 never wraps around.
C22_HighNeverWraps == WellFormed(TextNumbers)

\* what the code gives: the same for every high bound below the largest
\* usize; the largest usize itself is stored as 0 by a build that wraps
C22_HighBelowMax ==
    /\ (UsizeMax \notin Written) => WellFormed(TextNumbers \ {UsizeMax})
    /\ (pc # "parse" /\ Succeeds /\ UsizeMax \in Written) => kvalue.high = 0

====
